---- MODULE Spec2Model ----
(***************************************************************************)
(* bedrock-web-kms: the account master key, its seed cache and the JWE     *)
(* envelope operations, as state machines.                                 *)
(*                                                                         *)
(* Text is a sequence of code points, a Uint8Array a sequence of bytes.    *)
(* A JavaScript value is a record [t |-> type, v |-> content,              *)
(* props |-> own enumerable properties].                                   *)
(*                                                                         *)
(* Platform and library primitives are stand-ins with the same interface:  *)
(* SHA256 is a polynomial digest of DigestLen bytes, Ed25519 key           *)
(* generation and fingerprinting are a function of the seed, and an        *)
(* object's property names are ordinary names (no "__proto__").            *)
(***************************************************************************)
EXTENDS Integers, Sequences, FiniteSets, Bags, TLC

\* ---------------------------------------------------------------- bounds
\* bytes of a digest (32 in SHA-256)
DigestLen == 2
\* calls of the AccountMasterKey statics that may be in flight together
MaxCalls == 2
\* bytes of an authenticator (secretbox.overheadLength is 16)
overheadLength == 1

\* ------------------------------------------------------------ text, bytes
\* "bedrock-web-kms:"
PREFIX == <<98, 101, 100, 114, 111, 99, 107, 45, 119, 101, 98, 45, 107, 109, 115, 58>>
COLON == <<58>>

NoProps == [k \in {} |-> <<>>]

Str(cps) == [t |-> "string", v |-> cps, props |-> NoProps]
U8(bytes) == [t |-> "Uint8Array", v |-> bytes, props |-> NoProps]
\* a number other than 0 and NaN
Num == [t |-> "number", v |-> <<>>, props |-> NoProps]
Null == [t |-> "null", v |-> <<>>, props |-> NoProps]
Undefined == [t |-> "undefined", v |-> <<>>, props |-> NoProps]
True == [t |-> "boolean", v |-> <<1>>, props |-> NoProps]
False == [t |-> "boolean", v |-> <<0>>, props |-> NoProps]
Obj(props) == [t |-> "object", v |-> <<>>, props |-> props]
\* an array without elements; props are its named (non-index) properties
Arr(props) == [t |-> "array", v |-> <<>>, props |-> props]

\* ToBoolean
Truthy(x) ==
  CASE x.t \in {"null", "undefined"} -> FALSE
    [] x.t = "boolean" -> x = True
    [] x.t = "string" -> x.v # <<>>
    [] OTHER -> TRUE

\* x[key]
GetProp(x, key) ==
  IF x.t \in {"object", "array"} /\ key \in DOMAIN x.props
  THEN Str(x.props[key]) ELSE Undefined

\* a normal completion with value val, or an exception named err
Return(val) == [thrown |-> "", val |-> val]
Throw(err) == [thrown |-> err, val |-> Undefined]

\* TextEncoder.encode of one code point (UTF-8, code points below 2048)
Utf8Char(c) == IF c < 128 THEN <<c>> ELSE <<192 + (c \div 64), 128 + (c % 64)>>

RECURSIVE Utf8(_)
Utf8(cps) == IF cps = <<>> THEN <<>> ELSE Utf8Char(Head(cps)) \o Utf8(Tail(cps))

\* the base64url alphabet A-Z a-z 0-9 - _
B64Char(i) ==
  IF i < 26 THEN 65 + i
  ELSE IF i < 52 THEN 97 + (i - 26)
  ELSE IF i < 62 THEN 48 + (i - 52)
  ELSE IF i = 62 THEN 45 ELSE 95

B64Index(c) ==
  IF c >= 65 /\ c <= 90 THEN c - 65
  ELSE IF c >= 97 /\ c <= 122 THEN c - 97 + 26
  ELSE IF c >= 48 /\ c <= 57 THEN c - 48 + 52
  ELSE IF c = 45 THEN 62 ELSE 63

\* base64url.encode: three bytes make four characters, no padding
RECURSIVE Base64UrlEncode(_)
Base64UrlEncode(b) ==
  IF Len(b) = 0 THEN <<>>
  ELSE IF Len(b) = 1 THEN
    <<B64Char(b[1] \div 4), B64Char((b[1] % 4) * 16)>>
  ELSE IF Len(b) = 2 THEN
    <<B64Char(b[1] \div 4), B64Char((b[1] % 4) * 16 + (b[2] \div 16)),
      B64Char((b[2] % 16) * 4)>>
  ELSE
    <<B64Char(b[1] \div 4), B64Char((b[1] % 4) * 16 + (b[2] \div 16)),
      B64Char((b[2] % 16) * 4 + (b[3] \div 64)), B64Char(b[3] % 64)>>
    \o Base64UrlEncode(SubSeq(b, 4, Len(b)))

\* base64url.decode: four characters make three bytes
RECURSIVE Base64UrlDecode(_)
Base64UrlDecode(s) ==
  IF Len(s) < 2 THEN <<>>
  ELSE LET i1 == B64Index(s[1])
           i2 == B64Index(s[2])
           b1 == i1 * 4 + (i2 \div 16)
       IN IF Len(s) = 2 THEN <<b1>>
          ELSE LET i3 == B64Index(s[3])
                   b2 == (i2 % 16) * 16 + (i3 \div 4)
               IN IF Len(s) = 3 THEN <<b1, b2>>
                  ELSE <<b1, b2, (i3 % 4) * 64 + B64Index(s[4])>>
                       \o Base64UrlDecode(SubSeq(s, 5, Len(s)))

\* ------------------------------------------------------ platform stand-ins
RECURSIVE Pow256(_)
Pow256(n) == IF n = 0 THEN 1 ELSE 256 * Pow256(n - 1)

RECURSIVE PolyHash(_, _)
PolyHash(h, bytes) ==
  IF bytes = <<>> THEN h
  ELSE PolyHash((h * 31 + Head(bytes)) % Pow256(DigestLen), Tail(bytes))

\* crypto.subtle.digest('SHA-256', data): DigestLen bytes, a function of data
SHA256(data) ==
  LET h == PolyHash(7, data)
  IN [i \in 1..DigestLen |-> (h \div Pow256(i - 1)) % 256]

\* Ed25519KeyPair.generate({seed}).fingerprint(): a function of the seed
Fingerprint(seed) == [i \in 1..Len(seed) |-> (seed[i] * 3 + 1) % 256]

\* -------------------------------------------------------------- the state
VARIABLES
  lsPresent,  \* typeof localStorage !== 'undefined'
  lsFail,     \* "none", "write" (setItem throws) or "all" (getItem throws too)
  item,       \* the text stored under SEED_CACHE_KEY
  calls,      \* the calls of fromSecret, fromCache and clearCache: in flight,
              \*   or done and holding their result for the caller
  monitor,    \* which of the histories below is kept in this behaviour
  cleared,    \* "cleared": accountId -> "yes" when clearCache has completed and
              \*   no caching fromSecret was in flight or called since it was
              \*   called, "pending" while such a clearCache is in flight;
              \*   "raced": the same, a fromSecret in flight allowed
  cachedId,   \* "cached": accountId -> signer id of the caching fromSecret
              \*   that completed last, no clearCache or set for it since
  ops,        \* the last call of encrypt or decrypt, with its outcome
  kmsLog,     \* the requests that call handed to the KmsService
  cipher,     \* the last call of recommendedCipher, with its outcome
  kmsCall,    \* the call of a KmsService method: in flight, or done
  wire,       \* the last request that went to the remote KMS
  now         \* Date.now(), in the unit the Expires header resolves

cacheVars == <<lsPresent, lsFail, item, calls, monitor, cleared, cachedId>>
jweVars == <<ops, kmsLog>>
cipherVars == <<cipher>>
kmsVars == <<kmsCall, wire, now>>
vars == <<cacheVars, jweVars, cipherVars, kmsVars>>

\* ------------------------------------------------------------------ inputs
ACCT1 == <<97>>
ACCT2 == <<98>>
AccountIds == {ACCT1, ACCT2}
\* a string with a two-byte character, a byte array, and a number
SECRET1 == Str(<<115, 233>>)
SECRET2 == U8(<<116>>)
Secrets == {SECRET1, SECRET2, Num}

\* the stored text: none, text JSON.parse rejects, or the text of a value
Absent == [k |-> "absent", j |-> Null]
Garbage == [k |-> "garbage", j |-> Null]
Json(x) == [k |-> "json", j |-> x]

\* ------------------------------------------------------------ localStorage
\* localStorage.getItem(SEED_CACHE_KEY)
getItem == IF lsFail = "all" THEN Throw("StorageError") ELSE Return(item)

\* localStorage.setItem(SEED_CACHE_KEY, text): the completion and the item
setItem(text) ==
  IF lsFail \in {"write", "all"}
  THEN [thrown |-> "StorageError", item |-> item]
  ELSE [thrown |-> "", item |-> text]

\* JSON.parse of what getItem returned (null parses to null)
JSONParse(text) ==
  CASE text.k = "absent" -> Return(Null)
    [] text.k = "garbage" -> Throw("SyntaxError")
    [] OTHER -> Return(text.j)

\* JSON.stringify: own enumerable properties; of an array, its elements only
JSONStringify(x) == Json(IF x.t = "array" THEN Arr(NoProps) ELSE x)

\* --------------------------------------------------------------- SeedCache
\* _getCache() without its try and catch
_getCacheUncaught ==
  LET r == getItem
      p == JSONParse(r.val)
  IN IF r.thrown # "" THEN Throw(r.thrown)
     ELSE IF p.thrown # "" THEN Throw(p.thrown)
     ELSE IF Truthy(p.val) THEN Return(p.val)
     ELSE Return(Obj(NoProps))

\* _getCache(): the parsed record, {} when it is missing, falsy or unreadable
_getCache ==
  LET r == getItem
      p == JSONParse(r.val)
  IN IF r.thrown # "" THEN Return(Obj(NoProps))
     ELSE IF p.thrown # "" THEN Return(Obj(NoProps))
     ELSE IF Truthy(p.val) THEN Return(p.val)
     ELSE Return(Obj(NoProps))

\* _updateCache(cache): [thrown, val, item]
_updateCache(cache) ==
  LET w == setItem(JSONStringify(cache))
  IN IF w.thrown # "" THEN [thrown |-> "", val |-> False, item |-> item]
     ELSE [thrown |-> "", val |-> True, item |-> w.item]

\* cache[key] = text in strict mode: a primitive has no properties to create
SetProp(x, key, text) ==
  IF x.t \in {"object", "array"}
  THEN Return([x EXCEPT !.props =
         [k \in DOMAIN x.props \cup {key} |->
            IF k = key THEN text ELSE x.props[k]]])
  ELSE Throw("TypeError")

\* delete cache[key]
DeleteProp(x, key) ==
  IF x.t \in {"object", "array"}
  THEN [x EXCEPT !.props = [k \in DOMAIN x.props \ {key} |-> x.props[k]]]
  ELSE x

\* SeedCache.set({accountId, seed}): [thrown, val, item]
set(accountId, seed) ==
  IF ~lsPresent THEN [thrown |-> "", val |-> False, item |-> item]
  ELSE LET c == _getCache
           a == SetProp(c.val, accountId, Base64UrlEncode(seed))
           u == _updateCache(a.val)
       IN IF c.thrown # "" THEN [thrown |-> c.thrown, val |-> Undefined, item |-> item]
          ELSE IF a.thrown # "" \/ u.thrown # ""
          THEN [thrown |-> "", val |-> False, item |-> item]
          ELSE u

\* SeedCache.get({accountId}): [thrown, val, item]
get(accountId) ==
  IF ~lsPresent THEN [thrown |-> "", val |-> Null, item |-> item]
  ELSE LET c == _getCache
           encodedSeed == GetProp(c.val, accountId)
       IN IF c.thrown # "" THEN [thrown |-> c.thrown, val |-> Undefined, item |-> item]
          ELSE IF Truthy(encodedSeed)
          THEN [thrown |-> "", val |-> U8(Base64UrlDecode(encodedSeed.v)), item |-> item]
          ELSE [thrown |-> "", val |-> Null, item |-> item]

\* SeedCache.remove({accountId}): [thrown, val, item]
remove(accountId) ==
  IF ~lsPresent THEN [thrown |-> "", val |-> False, item |-> item]
  ELSE LET c == _getCache
           u == _updateCache(DeleteProp(c.val, accountId))
       IN IF c.thrown # "" THEN [thrown |-> c.thrown, val |-> Undefined, item |-> item]
          ELSE IF u.thrown # "" THEN [thrown |-> "", val |-> False, item |-> item]
          ELSE u

\* -------------------------------------------------------- AccountMasterKey
\* "urn:bedrock-web-kms:key:"
URN == <<117, 114, 110, 58, 98, 101, 100, 114, 111, 99, 107, 45, 119, 101, 98,
         45, 107, 109, 115, 58, 107, 101, 121, 58>>

\* _strToUint8Array(data)
_strToUint8Array(data) ==
  IF data.t = "string" THEN Return(U8(Utf8(data.v)))
  ELSE IF data.t # "Uint8Array" THEN Throw("TypeError")
  ELSE Return(data)

\* _signerFromSeed({seed}).id
_signerFromSeed(seed) == URN \o Fingerprint(seed.v)

\* new AccountMasterKey({accountId, signer, kmsService, kmsPlugin})
AccountMasterKey(signerId) ==
  [t |-> "AccountMasterKey", v |-> signerId, props |-> NoProps]

\* fromSecret: the secret as bytes, whatever is no string taken as bytes
fromSecretBytesUnchecked(secret) ==
  IF secret.t = "string" THEN _strToUint8Array(secret) ELSE Return(secret)
\* fromSecret: the secret as bytes, or the TypeError of a wrong type
fromSecretBytes(secret) ==
  IF secret.t = "string" THEN _strToUint8Array(secret)
  ELSE IF secret.t # "Uint8Array" THEN Throw("TypeError")
  ELSE Return(secret)

\* fromSecret: the bytes that are hashed
fromSecretData(secretBytes, accountId) ==
  _strToUint8Array(Str(PREFIX \o accountId \o COLON)).val.v \o secretBytes.v

\* no SeedCache method is awaited
NoAwait == [thrown |-> "", val |-> Undefined]

\* a call: its arguments, where it stands (pc), its locals (data, seed), the
\* completion of the SeedCache method it awaits, and once done its result;
\* ok, cl and expect belong to the histories
Call(op, secret, accountId, cache) ==
  [op |-> op, secret |-> secret, accountId |-> accountId, cache |-> cache,
   pc |-> "called", data |-> <<>>, seed |-> Null, awaited |-> NoAwait,
   thrown |-> "", ret |-> Undefined, ok |-> FALSE, cl |-> FALSE,
   expect |-> <<>>]

\* call c returns ret, or throws
Returns(c, ret) ==
  [c EXCEPT !.pc = "done", !.ret = ret, !.awaited = NoAwait]
Throws(c, err) ==
  [c EXCEPT !.pc = "done", !.thrown = err, !.awaited = NoAwait]

\* the completion [thrown, val] of a SeedCache method whose result is r
Completion(r) == [thrown |-> r.thrown, val |-> r.val]

Add(c) == calls (+) SetToBag({c})
Replace(c, d) == (calls (-) SetToBag({c})) (+) SetToBag({d})
CanCall == BagCardinality(calls) < MaxCalls
Calls == BagToSet(calls)

\* --------------------------------------------------- JWE: values and inputs
\* "k1", "k2"
KEK1 == Str(<<107, 49>>)
KEK2 == Str(<<107, 50>>)
KekIds == {KEK1, KEK2}
\* 'recommended', 'fips'
RECOMMENDED == Str(<<114, 101, 99, 111, 109, 109, 101, 110, 100, 101, 100>>)
FIPS == Str(<<102, 105, 112, 115>>)
VERSIONS == <<RECOMMENDED, FIPS>>
\* 'A256KW', 'A256GCM', 'C20P', and the 'XS20P' of recommendedCipher
A256KW == Str(<<65, 50, 53, 54, 75, 87>>)
A256GCM == Str(<<65, 50, 53, 54, 71, 67, 77>>)
C20P == Str(<<67, 50, 48, 80>>)
JWE_ENC == Str(<<88, 83, 50, 48, 80>>)
\* "dir", an algorithm decrypt does not support, and some base64url text
DIR == Str(<<100, 105, 114>>)
TEXT == Str(<<81, 81>>)

Header(kid, alg, enc) == [t |-> "object", kid |-> kid, alg |-> alg, enc |-> enc]
Recipient(header, encrypted_key) ==
  [t |-> "object", header |-> header, encrypted_key |-> encrypted_key]
Array(elems) == [t |-> "array", elems |-> elems]
Jwe(protected, iv, ciphertext, tag, recipients) ==
  [t |-> "object", protected |-> protected, iv |-> iv,
   ciphertext |-> ciphertext, tag |-> tag, recipients |-> recipients]

Headers ==
  {Undefined, Header(KEK1, DIR, C20P), Header(KEK2, A256KW, C20P)}
    \cup {Header(KEK1, A256KW, enc) : enc \in {A256GCM, C20P, JWE_ENC}}
RecipientLists ==
  {Undefined, TEXT, Array(<<>>),
   Array(<<Recipient(Header(KEK2, A256KW, C20P), TEXT),
           Recipient(Header(KEK1, A256KW, C20P), TEXT)>>)}
    \cup {Array(<<Recipient(h, k)>>) : h \in Headers, k \in {Undefined, TEXT}}
Jwes ==
  {Null} \cup
  {Jwe(p, i, c, g, r) : p \in {Undefined, Num, TEXT}, i \in {Undefined, TEXT},
                        c \in {Undefined, TEXT}, g \in {Undefined, Num, TEXT},
                        r \in RecipientLists}

\* the messages of the errors decrypt throws
MSG_JWE == "\"jwe\" must be an object."
MSG_PROTECTED == "\"jwe.protected\" is missing or not a string."
MSG_IV == "Invalid or missing \"iv\"."
MSG_CIPHERTEXT == "Invalid or missing \"ciphertext\"."
MSG_TAG == "Invalid or missing \"tag\"."
MSG_RECIPIENTS == "\"jwe.recipients\" must be an array."
MSG_HEADER == "Invalid or unsupported JWE header."
MSG_ENCRYPTED_KEY == "Invalid or missing \"encrypted_key\"."

\* the outcome of encrypt or decrypt: the error (class and message) or the
\* value, and the requests handed to the KmsService on the way
Fail(class, message, sent) ==
  [thrown |-> class, message |-> message, val |-> Undefined, sent |-> sent]
Ok(val, sent) == [thrown |-> "", message |-> "", val |-> val, sent |-> sent]

\* the methods of KmsService
KmsServiceMethods == {"generateKey", "wrapKey", "unwrapKey", "sign", "verify"}

\* kmsService[method](request): a method KmsService lacks is undefined, and
\* calling it a TypeError; the others hand the request to the service
kmsServiceCall(method, request) ==
  IF method \in KmsServiceMethods
  THEN Ok(Undefined, <<[method |-> method, request |-> request]>>)
  ELSE Fail("TypeError", "kmsService." \o method \o " is not a function", <<>>)

\* _assertVersion(version) of encrypt: an array has no method "contains"
_assertVersion(version) ==
  IF version.t # "string"
  THEN Fail("TypeError", "\"version\" must be a string.", <<>>)
  ELSE Fail("TypeError", "VERSIONS.contains is not a function", <<>>)

\* encrypt({data, kekId, wrappedCek, version = 'recommended'})
encrypt(data, kekId, wrappedCek, version) ==
  LET v == _assertVersion(IF version.t = "undefined" THEN RECOMMENDED
                           ELSE version)
      d == _strToUint8Array(data)
  IN IF v.thrown # "" THEN v
     ELSE IF d.thrown # ""
     THEN Fail(d.thrown, "\"data\" be a string or Uint8Array.", <<>>)
     ELSE IF Truthy(wrappedCek)
     THEN IF wrappedCek.t # "string"
          THEN Fail("TypeError", "\"wrappedCek\" must be a string.", <<>>)
          \* the arguments of kmsService.unwrap name an undeclared variable
          ELSE Fail("ReferenceError", "wrappedKey is not defined", <<>>)
     \* a key is generated; the arguments of wrapKey name an undeclared one
     ELSE Fail("ReferenceError", "keyId is not defined", <<>>)

\* jwe.recipients.find(e => e.header && e.header.kid === kekId)
RECURSIVE find(_, _)
find(elems, kekId) ==
  IF elems = <<>> THEN Undefined
  ELSE IF Truthy(Head(elems).header) /\ Head(elems).header.kid = kekId
  THEN Head(elems)
  ELSE find(Tail(elems), kekId)

\* decrypt: the header of the recipient found, the wrapped key, the unwrap
decryptFound(e, jwe) ==
  LET header == e.header
      wrappedKey == e.encrypted_key
      u == kmsServiceCall("unwrap", [wrappedKey |-> wrappedKey,
                                     kekId |-> header.kid])
  IN IF ~(/\ Truthy(header) /\ header.t = "object" /\ header.kid.t = "string"
          /\ header.alg = A256KW /\ header.enc \in {A256GCM, C20P})
     THEN Fail("Error", MSG_HEADER, <<>>)
     ELSE IF wrappedKey.t # "string" THEN Fail("Error", MSG_ENCRYPTED_KEY, <<>>)
     ELSE IF u.thrown # "" THEN u
     \* the arguments of cipher.decrypt name undeclared variables
     ELSE Fail("ReferenceError", "ciphertext is not defined", u.sent)

\* decrypt with the check of iv ahead of the check of protected
decryptIvFirst(jwe, kekId) ==
  IF ~(Truthy(jwe) /\ jwe.t = "object") THEN Fail("TypeError", MSG_JWE, <<>>)
  ELSE IF jwe.iv.t # "string" THEN Fail("Error", MSG_IV, <<>>)
  ELSE IF jwe.protected.t # "string"
  THEN Fail("TypeError", MSG_PROTECTED, <<>>)
  ELSE IF jwe.ciphertext.t # "string" THEN Fail("Error", MSG_CIPHERTEXT, <<>>)
  ELSE IF jwe.tag.t # "string" THEN Fail("Error", MSG_TAG, <<>>)
  ELSE IF jwe.recipients.t # "array"
  THEN Fail("TypeError", MSG_RECIPIENTS, <<>>)
  ELSE LET e == find(jwe.recipients.elems, kekId)
       IN IF e.t = "undefined"
          THEN Fail("TypeError", "Cannot destructure 'undefined'", <<>>)
          ELSE decryptFound(e, jwe)

\* decrypt({jwe, kekId})
decrypt(jwe, kekId) ==
  IF ~(Truthy(jwe) /\ jwe.t = "object") THEN Fail("TypeError", MSG_JWE, <<>>)
  ELSE IF jwe.protected.t # "string"
  THEN Fail("TypeError", MSG_PROTECTED, <<>>)
  ELSE IF jwe.iv.t # "string" THEN Fail("Error", MSG_IV, <<>>)
  ELSE IF jwe.ciphertext.t # "string" THEN Fail("Error", MSG_CIPHERTEXT, <<>>)
  ELSE IF jwe.tag.t # "string" THEN Fail("Error", MSG_TAG, <<>>)
  ELSE IF jwe.recipients.t # "array"
  THEN Fail("TypeError", MSG_RECIPIENTS, <<>>)
  ELSE LET e == find(jwe.recipients.elems, kekId)
       \* the result of find is destructured: undefined has no properties
       IN IF e.t = "undefined"
          THEN Fail("TypeError", "Cannot destructure 'undefined'", <<>>)
          ELSE decryptFound(e, jwe)

\* a call of encrypt or decrypt with its outcome; NoOp: none
Op(op, data, jwe, kekId, wrappedCek, version, r) ==
  [op |-> op, data |-> data, jwe |-> jwe, kekId |-> kekId,
   wrappedCek |-> wrappedCek, version |-> version, thrown |-> r.thrown,
   message |-> r.message, ret |-> r.val]
NoOp ==
  Op("none", Undefined, Null, Undefined, Undefined, Undefined,
     Ok(Undefined, <<>>))

\* -------------------------------------------------------- recommendedCipher
\* what is handed to the cipher: data, keys and nonces
CipherData == {U8(<<1>>), U8(<<1, 2>>), Num}
\* the additional data are optional
AdditionalData == {U8(<<65>>), U8(<<66>>), Undefined}
Ceks == {U8(<<9>>), U8(<<10>>), Num}
Ivs == {U8(<<3>>), U8(<<4>>)}

\* the authenticator of secretbox: overheadLength bytes, a function of the
\* key, the nonce and the encrypted bytes
authenticator(c, iv, cek) ==
  [i \in 1..overheadLength |-> (PolyHash(i, cek \o iv \o c) + i) % 256]

\* secretbox(data, iv, cek): the authenticator, then the encrypted bytes
secretbox(data, iv, cek) ==
  LET c == [i \in 1..Len(data) |-> (data[i] + cek[1] + iv[1] + i) % 256]
  IN authenticator(c, iv, cek) \o c

\* secretbox.open(box, iv, cek): the data, or null when the authenticator
\* does not fit
secretboxOpen(box, iv, cek) ==
  LET c == SubSeq(box, overheadLength + 1, Len(box))
  IN IF Len(box) < overheadLength
        \/ SubSeq(box, 1, overheadLength) # authenticator(c, iv, cek)
     THEN Null
     ELSE U8([i \in 1..Len(c) |-> (c[i] + 768 - cek[1] - iv[1] - i) % 256])

\* what encrypt returns: {ciphertext, iv, tag}
Sealed(ciphertext, iv, tag) ==
  [t |-> "object", ciphertext |-> ciphertext, iv |-> iv, tag |-> tag]

\* recommendedCipher.encrypt({data, additionalData, cek}), iv being the
\* random nonce
cipherEncrypt(data, additionalData, cek, iv) ==
  IF data.t # "Uint8Array"
  THEN Fail("TypeError", "\"data\" must be a Uint8Array.", <<>>)
  ELSE IF cek.t # "Uint8Array"
  THEN Fail("TypeError", "\"cek\" must be a Uint8Array.", <<>>)
  ELSE LET encrypted == secretbox(data.v, iv.v, cek.v)
           n == Len(encrypted) - overheadLength
       IN Ok(Sealed(U8(SubSeq(encrypted, 1, n)), iv,
                    U8(SubSeq(encrypted, n + 1, Len(encrypted)))), <<>>)

\* recommendedCipher.decrypt({ciphertext, iv, tag, additionalData, cek})
cipherDecrypt(ciphertext, iv, tag, additionalData, cek) ==
  IF iv.t # "Uint8Array" THEN Fail("Error", MSG_IV, <<>>)
  ELSE IF ciphertext.t # "Uint8Array" THEN Fail("Error", MSG_CIPHERTEXT, <<>>)
  ELSE IF tag.t # "Uint8Array" THEN Fail("Error", MSG_TAG, <<>>)
  ELSE IF cek.t # "Uint8Array"
  THEN Fail("TypeError", "\"cek\" must be a Uint8Array.", <<>>)
  ELSE Ok(secretboxOpen(ciphertext.v \o tag.v, iv.v, cek.v), <<>>)

\* a call of the cipher with its outcome; sealed is, for a decrypt of what
\* the last encrypt returned, the data and additional data of that encrypt
CipherOp(op, data, additionalData, cek, sealed, r) ==
  [op |-> op, data |-> data, additionalData |-> additionalData, cek |-> cek,
   sealed |-> sealed, thrown |-> r.thrown, message |-> r.message,
   ret |-> r.val]
NoSealed == [data |-> Undefined, additionalData |-> Undefined, cek |-> Undefined]
NoCipherOp ==
  CipherOp("none", Undefined, Undefined, Undefined, NoSealed,
           Ok(Undefined, <<>>))

\* --------------------------------------------------------------- KmsService
\* the two clients: capability invocation, and HTTP request signing
Strategies == {"capability", "httpsig"}
\* "p", a plugin; the key types of AccountMasterKey.generateKey
PLUGIN == Str(<<112>>)
KEK_TYPE ==
  Str(<<65, 101, 115, 75, 101, 121, 87, 114, 97, 112, 112, 105, 110, 103, 75,
        101, 121, 50, 48, 49, 57>>)
HMAC_TYPE ==
  Str(<<83, 104, 97, 50, 53, 54, 72, 109, 97, 99, 75, 101, 121, 50, 48, 49,
        57>>)
\* a signer, with its id "s"
SIGNER == [t |-> "object", id |-> Str(<<115>>)]
\* key material
KEY == U8(<<7, 8>>)
\* window.location.origin "https://h" with urls.base "/kms", its host "h",
\* urls.operations "/kms/operations" and the value of uuid()
ORIGIN == <<104, 116, 116, 112, 115, 58, 47, 47, 104>>
BASE == <<47, 107, 109, 115>>
HOST == <<104>>
OPERATIONS == <<47, 107, 109, 115, 47, 111, 112, 101, 114, 97, 116, 105, 111, 110, 115>>
UUID == <<117>>
\* the lifetime of a signed request: 600000 ms, in seconds
EXPIRES_IN == 600

\* typeof, with Uint8Array told apart as _assert does
TypeOf(x) ==
  IF x.t = "Uint8Array" THEN "Uint8Array"
  ELSE IF x.t \in {"null", "array", "object"} THEN "object"
  ELSE x.t

\* `${x}`
TemplateText(x) ==
  IF x.t = "string" THEN x.v
  ELSE IF x.t = "number" THEN <<53>>
  ELSE <<117, 110, 100, 101, 102, 105, 110, 101, 100>>

\* the arguments of a method: the parameters key and data are bytes, kekId
\* and keyId are keyId, wrappedKey and signature are text
Args(plugin, type, id, keyId, bytes, text, signer) ==
  [plugin |-> plugin, type |-> type, id |-> id, keyId |-> keyId,
   bytes |-> bytes, text |-> text, signer |-> signer]

\* _assert(variable, name, types), an async function: the reason its promise
\* is rejected with, "" when it is fulfilled
_assert(variable, name, types) ==
  IF \E i \in 1..Len(types) : types[i] = TypeOf(variable) THEN ""
  ELSE "\"" \o name \o "\" must be "
         \o (IF Len(types) > 1 THEN "a " \o types[1] \o ", " \o types[2]
             ELSE "one of " \o types[1]) \o "."

\* the calls of _assert a method starts with; their promises are dropped
asserts(strategy, method, a) ==
  LET plugin == IF strategy = "httpsig" \/ method = "generateKey"
                THEN <<_assert(a.plugin, "plugin", <<"string">>)>> ELSE <<>>
      bytes == IF strategy = "httpsig" THEN <<"Uint8Array", "string">>
               ELSE <<"Uint8Array">>
      signer == <<_assert(a.signer, "signer", <<"object">>)>>
  IN CASE method = "generateKey" ->
            plugin \o <<_assert(a.type, "type", <<"string">>)>>
              \o (IF strategy = "httpsig"
                  THEN <<_assert(a.id, "id", <<"string">>)>> ELSE <<>>)
              \o signer
       [] method = "wrapKey" ->
            plugin \o <<_assert(a.bytes, "key", bytes),
                        _assert(a.keyId, "kekId", <<"string">>)>> \o signer
       [] method = "unwrapKey" ->
            plugin \o <<_assert(a.text, "wrappedKey", <<"string">>),
                        _assert(a.keyId, "kekId", <<"string">>)>> \o signer
       [] method = "sign" ->
            plugin \o <<_assert(a.keyId, "keyId", <<"string">>),
                        _assert(a.bytes, "data", bytes)>> \o signer
       [] OTHER ->
            plugin \o <<_assert(a.keyId, "keyId", <<"string">>),
                        _assert(a.bytes, "data", bytes),
                        _assert(a.text, "signature", <<"string">>)>> \o signer

\* base64url.encode(input) of the library: bytes, or the bytes of a string
encode(input) ==
  IF input.t = "Uint8Array" THEN Ok(Str(Base64UrlEncode(input.v)), <<>>)
  ELSE IF input.t = "string" THEN Ok(Str(Base64UrlEncode(Utf8(input.v))), <<>>)
  ELSE Fail("TypeError", "\"input\" be a string or Uint8Array.", <<>>)

\* the body of a request: the operation of the capability client, or
\* {method, parameters, plugin} of the request-signing client, whose
\* parameters id, kekId and keyId are invocationTarget, encodedKey is
\* unwrappedKey, data is verifyData and signature is signatureValue
Operation(type, invocationTarget, keyType, controller, plugin, unwrappedKey, wrappedKey, verifyData, signatureValue) ==
  [type |-> type, invocationTarget |-> invocationTarget, keyType |-> keyType,
   controller |-> controller, plugin |-> plugin,
   unwrappedKey |-> unwrappedKey, wrappedKey |-> wrappedKey,
   verifyData |-> verifyData, signatureValue |-> signatureValue]

\* a request: where it goes, its body, and what its signature covers
Request(strategy, url, body, signed) ==
  [strategy |-> strategy, url |-> url, body |-> body, signed |-> signed]
NoRequest ==
  Request("none", Undefined,
          Operation("", Undefined, Undefined, Undefined, Undefined, Undefined,
                    Undefined, Undefined, Undefined), <<>>)

\* the operation a method of the capability client builds
capabilityOperation(method, a) ==
  LET e == encode(a.bytes)
      U == Undefined
  IN CASE method = "generateKey" ->
            IF a.signer.t = "undefined"
            THEN Fail("TypeError", "Cannot read property 'id' of undefined", <<>>)
            ELSE Ok(Operation("GenerateKeyOperation",
                              Str(ORIGIN \o BASE \o <<47>>
                                    \o TemplateText(a.plugin) \o <<47>> \o UUID),
                              a.type, a.signer.id, U, U, U, U, U), <<>>)
       [] method = "wrapKey" ->
            IF e.thrown # "" THEN e
            ELSE Ok(Operation("WrapKeyOperation", a.keyId, U, U, U, e.val, U,
                              U, U), <<>>)
       [] method = "unwrapKey" ->
            Ok(Operation("UnwrapKeyOperation", a.keyId, U, U, U, U, a.text, U,
                         U), <<>>)
       [] method = "sign" ->
            IF e.thrown # "" THEN e
            ELSE Ok(Operation("SignOperation", a.keyId, U, U, U, U, U, e.val,
                              U), <<>>)
       [] OTHER ->
            IF e.thrown # "" THEN e
            ELSE Ok(Operation("VerifyOperation", a.keyId, U, U, U, U, U, e.val,
                              a.text), <<>>)

\* _postOperation({url, operation, signer}) of the capability client, up to
\* the signature: the proof covers the operation and the capability url
capabilityRequest(method, a) ==
  LET o == capabilityOperation(method, a)
  IN IF o.thrown # "" THEN o
     ELSE IF a.signer.t = "undefined"
     THEN Fail("TypeError", "Cannot read property 'id' of undefined", <<>>)
     ELSE Ok(Request("capability", o.val.invocationTarget, o.val,
                     [operation |-> o.val,
                      capability |-> o.val.invocationTarget,
                      verificationMethod |-> a.signer.id]), <<>>)

\* the data a method of the request-signing client posts
httpsigData(method, a) ==
  LET e == IF a.bytes.t = "Uint8Array" THEN encode(a.bytes).val ELSE a.bytes
      U == Undefined
  IN CASE method = "generateKey" ->
            Operation(method, a.id, a.type, U, a.plugin, U, U, U, U)
       [] method = "wrapKey" ->
            Operation(method, a.keyId, U, U, a.plugin, e, U, U, U)
       [] method = "unwrapKey" ->
            Operation(method, a.keyId, U, U, a.plugin, U, a.text, U, U)
       [] method = "sign" ->
            Operation(method, a.keyId, U, U, a.plugin, U, U, e, U)
       [] OTHER ->
            Operation(method, a.keyId, U, U, a.plugin, U, U, e, a.text)

\* _postOperation, _signedAxios and _signHttp of the request-signing client,
\* up to the signature: it covers the headers expires and host and the
\* request target
httpsigRequest(method, a) ==
  IF a.signer.t = "undefined"
  THEN Fail("TypeError", "Cannot read property 'sign' of undefined", <<>>)
  ELSE Ok(Request("httpsig", Str(ORIGIN \o OPERATIONS),
                  httpsigData(method, a),
                  [expires |-> now + EXPIRES_IN, host |-> HOST,
                   target |-> <<"post", OPERATIONS>>]), <<>>)

\* the remote KMS, a stub: the text of a key wrapped under kekId, and back
wrapped(kekId, text) == Str(<<87>> \o TemplateText(kekId) \o <<58>> \o text.v)
isWrapped(kekId, w) ==
  /\ w.t = "string"
  /\ Len(w.v) >= Len(wrapped(kekId, Str(<<>>)).v)
  /\ SubSeq(w.v, 1, Len(wrapped(kekId, Str(<<>>)).v))
       = wrapped(kekId, Str(<<>>)).v
unwrapped(kekId, w) ==
  Str(SubSeq(w.v, Len(wrapped(kekId, Str(<<>>)).v) + 1, Len(w.v)))

\* the result of the operation in the body of a request, at the remote KMS
remote(body) ==
  CASE body.type \in {"GenerateKeyOperation", "generateKey"} ->
         Ok(Str(TemplateText(body.invocationTarget) \o <<35, 49>>), <<>>)
    [] body.type \in {"WrapKeyOperation", "wrapKey"} ->
         IF body.unwrappedKey.t = "string"
         THEN Ok(wrapped(body.invocationTarget, body.unwrappedKey), <<>>)
         ELSE Fail("OperationFailed", "no key", <<>>)
    [] body.type \in {"UnwrapKeyOperation", "unwrapKey"} ->
         IF isWrapped(body.invocationTarget, body.wrappedKey)
         THEN Ok(unwrapped(body.invocationTarget, body.wrappedKey), <<>>)
         ELSE Fail("OperationFailed", "not a key wrapped by this key", <<>>)
    [] body.type \in {"SignOperation", "sign"} -> Ok(TEXT, <<>>)
    [] OTHER -> Ok(True, <<>>)

\* what a method makes of response.data: the capability client takes the
\* field of its operation and unwrapKey decodes it, the request-signing
\* client returns the data as they are
result(strategy, method, data) ==
  IF strategy = "capability" /\ method = "unwrapKey"
  THEN U8(Base64UrlDecode(data.v))
  ELSE data

\* what the caller of AccountMasterKey.generateKey passed
Input(type, version) == [type |-> type, version |-> version]
NoInput == Input(Undefined, Undefined)

\* a call of a method: who calls, the arguments, where it stands, the
\* reasons of the rejected promises of _assert, the request, the number of
\* requests sent, the response and the outcome; wraps is, for an unwrapKey
\* of the result of the wrapKey before it, the key that was wrapped
KmsCallOf(caller, strategy, method, a, wraps, input) ==
  [caller |-> caller, strategy |-> strategy, method |-> method, args |-> a,
   pc |-> "sign", rejected |-> <<>>, request |-> NoRequest, sent |-> 0,
   response |-> Ok(Undefined, <<>>), thrown |-> "", message |-> "",
   ret |-> Undefined, wraps |-> wraps, input |-> input]
NoArgs ==
  Args(Undefined, Undefined, Undefined, Undefined, Undefined, Undefined,
       Undefined)
NoKmsCall ==
  [KmsCallOf("", "", "", NoArgs, Undefined, NoInput) EXCEPT !.pc = "idle"]

\* a method is entered: the asserts, then the request up to its signature
kmsStart(caller, strategy, method, a, wraps, input) ==
  LET c == [KmsCallOf(caller, strategy, method, a, wraps, input) EXCEPT
              !.rejected = SelectSeq(asserts(strategy, method, a),
                                     LAMBDA m : m # "")]
      r == IF strategy = "capability" THEN capabilityRequest(method, a)
           ELSE httpsigRequest(method, a)
  IN IF r.thrown # ""
     THEN [c EXCEPT !.pc = "done", !.thrown = r.thrown, !.message = r.message]
     ELSE [c EXCEPT !.request = r.val]

\* 'HS256', the algorithm of an Hmac
HS256 == Str(<<72, 83, 50, 53, 54>>)
\* 'hmac', 'kek' and 'rsa'
HMAC == Str(<<104, 109, 97, 99>>)
KEK == Str(<<107, 101, 107>>)
RSA == Str(<<114, 115, 97>>)
\* the messages of generateKey; the last two go on with the value, quoted
MSG_VERSION == "\"version\" must be a string."
MSG_UNSUPPORTED == "Unsupported version"
MSG_UNKNOWN_TYPE == "Unknown key type"

\* _assertVersion(version) of AccountMasterKey.js
_assertVersionIncludes(version) ==
  IF version.t # "string" THEN Fail("TypeError", MSG_VERSION, <<>>)
  ELSE IF \E i \in 1..Len(VERSIONS) : VERSIONS[i] = version
  THEN Ok(Undefined, <<>>)
  ELSE Fail("Error", MSG_UNSUPPORTED, <<>>)

\* the type generateKey asks the KMS for
keyType(type) ==
  IF type = HMAC THEN Ok(HMAC_TYPE, <<>>)
  ELSE IF type = KEK THEN Ok(KEK_TYPE, <<>>)
  ELSE Fail("Error", MSG_UNKNOWN_TYPE, <<>>)

\* a call of generateKey that threw before it reached the KmsService
generateKeyThrew(strategy, type, version, e) ==
  [KmsCallOf("AccountMasterKey", strategy, "generateKey", NoArgs, Undefined,
             Input(type, version))
     EXCEPT !.pc = "done", !.thrown = e.thrown, !.message = e.message]

\* generateKey({type, version = 'recommended'}) of AccountMasterKey, the
\* type checked before the version
generateKeyTypeFirst(strategy, type, version) ==
  LET v == _assertVersionIncludes(IF version.t = "undefined" THEN RECOMMENDED
                                  ELSE version)
      k == keyType(type)
  IN IF k.thrown # "" THEN generateKeyThrew(strategy, type, version, k)
     ELSE IF v.thrown # "" THEN generateKeyThrew(strategy, type, version, v)
     ELSE kmsStart("AccountMasterKey", strategy, "generateKey",
                   [NoArgs EXCEPT !.plugin = PLUGIN, !.type = k.val,
                                  !.signer = SIGNER],
                   Undefined, Input(type, version))
\* generateKey({type, version = 'recommended'}) of AccountMasterKey, up to
\* the request of kmsService.generateKey({plugin, type, signer})
generateKey(strategy, type, version) ==
  LET v == _assertVersionIncludes(IF version.t = "undefined" THEN RECOMMENDED
                                  ELSE version)
      k == keyType(type)
  IN IF v.thrown # "" THEN generateKeyThrew(strategy, type, version, v)
     ELSE IF k.thrown # "" THEN generateKeyThrew(strategy, type, version, k)
     ELSE kmsStart("AccountMasterKey", strategy, "generateKey",
                   [NoArgs EXCEPT !.plugin = PLUGIN, !.type = k.val,
                                  !.signer = SIGNER],
                   Undefined, Input(type, version))

Monitors == {"none", "cleared", "cached", "raced"}

Init ==
  /\ lsPresent \in BOOLEAN
  /\ lsFail \in (IF lsPresent THEN {"none", "write", "all"} ELSE {"none"})
  /\ item \in (IF lsPresent
               THEN {Absent, Garbage, Json(Null), Json(Num),
                     Json(Arr(NoProps)), Json(Obj(NoProps))}
               ELSE {Absent})
  /\ calls = EmptyBag
  /\ monitor \in Monitors
  /\ cleared = [a \in AccountIds |-> "no"]
  /\ cachedId = [a \in AccountIds |-> <<>>]
  /\ ops = NoOp
  /\ kmsLog = <<>>
  /\ cipher = NoCipherOp
  /\ kmsCall = NoKmsCall
  /\ wire = NoRequest
  /\ now = 0

\* the histories, kept when their monitor is on
\* the storage is there and neither reads nor writes fail
Working == monitor = "cached" /\ lsPresent /\ lsFail = "none"
\* no caching fromSecret for the account is in flight
Alone(accountId) ==
  \A c \in Calls : ~(/\ c.op = "fromSecret" /\ c.cache
                        /\ c.accountId = accountId /\ c.pc # "done")
Clear(accountId, b) ==
  cleared' = IF monitor \in {"cleared", "raced"}
             THEN [cleared EXCEPT ![accountId] = b]
             ELSE cleared
Cached(accountId, id) ==
  cachedId' = IF monitor = "cached" THEN [cachedId EXCEPT ![accountId] = id]
              ELSE cachedId

\* fromSecret taking, when it caches, the seed the cache already holds
fromSecretSeedCached(c) ==
  IF c.cache /\ Truthy(get(c.accountId).val) THEN get(c.accountId).val
  ELSE U8(SHA256(c.data))

\* fromSecret: the seed is the digest of the prefixed secret
fromSecretSeed(c) == U8(SHA256(c.data))

\* fromSecret is called: the type check, then the digest is awaited
FromSecretCall(secret, accountId, cache) ==
  LET b == fromSecretBytes(secret)
      c == Call("fromSecret", secret, accountId, cache)
  IN /\ CanCall
     /\ IF cache THEN Clear(accountId, "no") ELSE UNCHANGED cleared
     /\ calls' = IF b.thrown # "" THEN Add(Throws(c, b.thrown))
                 ELSE Add([c EXCEPT !.pc = "digest",
                             !.data = fromSecretData(b.val, accountId)])
     /\ UNCHANGED <<lsPresent, lsFail, item, monitor, cachedId,
                 jweVars, cipherVars, kmsVars>>

\* the digest resolves: the seed; SeedCache.set runs whatever the cache flag
FromSecretDigestAlways(c) ==
  LET seed == fromSecretSeed(c)
      r == set(c.accountId, seed.v)
      d == [c EXCEPT !.seed = seed, !.data = <<>>]
  IN /\ c.op = "fromSecret" /\ c.pc = "digest"
     /\ IF TRUE
        THEN /\ item' = r.item
             /\ Cached(c.accountId, <<>>)
             /\ calls' = Replace(c, [d EXCEPT !.pc = "set",
                                       !.awaited = Completion(r),
                                       !.ok = Working])
        ELSE /\ calls' = Replace(c, [d EXCEPT !.pc = "generate"])
             /\ UNCHANGED <<item, cachedId>>
     /\ UNCHANGED <<lsPresent, lsFail, monitor, cleared,
                 jweVars, cipherVars, kmsVars>>
\* the digest resolves: the seed; with cache, SeedCache.set runs
FromSecretDigest(c) ==
  LET seed == fromSecretSeed(c)
      r == set(c.accountId, seed.v)
      d == [c EXCEPT !.seed = seed, !.data = <<>>]
  IN /\ c.op = "fromSecret" /\ c.pc = "digest"
     /\ IF c.cache
        THEN /\ item' = r.item
             /\ Cached(c.accountId, <<>>)
             /\ calls' = Replace(c, [d EXCEPT !.pc = "set",
                                       !.awaited = Completion(r),
                                       !.ok = Working])
        ELSE /\ calls' = Replace(c, [d EXCEPT !.pc = "generate"])
             /\ UNCHANGED <<item, cachedId>>
     /\ UNCHANGED <<lsPresent, lsFail, monitor, cleared,
                 jweVars, cipherVars, kmsVars>>

\* the promise of set settles, and a false fails the call
FromSecretSetStrict(c) ==
  /\ c.op = "fromSecret" /\ c.pc = "set"
  /\ calls' = IF c.awaited.thrown # ""
              THEN Replace(c, Throws(c, c.awaited.thrown))
              ELSE IF c.awaited.val = False
              THEN Replace(c, Throws(c, "Error"))
              ELSE Replace(c, [c EXCEPT !.pc = "generate", !.awaited = NoAwait])
  /\ UNCHANGED <<lsPresent, lsFail, item, monitor, cleared, cachedId,
                 jweVars, cipherVars, kmsVars>>
\* the promise of set settles: the key pair generation is awaited
FromSecretSet(c) ==
  /\ c.op = "fromSecret" /\ c.pc = "set"
  /\ calls' = IF c.awaited.thrown # ""
              THEN Replace(c, Throws(c, c.awaited.thrown))
              ELSE Replace(c, [c EXCEPT !.pc = "generate", !.awaited = NoAwait])
  /\ UNCHANGED <<lsPresent, lsFail, item, monitor, cleared, cachedId,
                 jweVars, cipherVars, kmsVars>>

\* the key pair is generated: fromSecret returns the instance
FromSecretGenerate(c) ==
  LET id == _signerFromSeed(c.seed)
  IN /\ c.op = "fromSecret" /\ c.pc = "generate"
     /\ calls' = Replace(c, Returns(c, AccountMasterKey(id)))
     /\ IF c.cache /\ c.ok THEN Cached(c.accountId, id) ELSE UNCHANGED cachedId
     /\ UNCHANGED <<lsPresent, lsFail, item, monitor, cleared,
                 jweVars, cipherVars, kmsVars>>

\* fromCache is called: null without localStorage, else SeedCache.get runs
FromCacheCall(accountId) ==
  LET r == get(accountId)
      c == Call("fromCache", Undefined, accountId, FALSE)
  IN /\ CanCall
     /\ calls' = IF ~lsPresent THEN Add(Returns(c, Null))
                 ELSE Add([c EXCEPT !.pc = "get", !.awaited = Completion(r),
                             !.ok = Working, !.cl = (cleared[accountId] = "yes" /\ Alone(accountId)),
                             !.expect = cachedId[accountId]])
     /\ UNCHANGED <<lsPresent, lsFail, item, monitor, cleared, cachedId,
                 jweVars, cipherVars, kmsVars>>

\* the promise of get settles, and generation follows whatever the seed
FromCacheGetUnchecked(c) ==
  LET d == [c EXCEPT !.seed = c.awaited.val, !.awaited = NoAwait]
  IN /\ c.op = "fromCache" /\ c.pc = "get"
     /\ calls' = IF c.awaited.thrown # ""
                 THEN Replace(c, Throws(c, c.awaited.thrown))
                 ELSE Replace(c, [d EXCEPT !.pc = "generate"])
     /\ UNCHANGED <<lsPresent, lsFail, item, monitor, cleared, cachedId,
                 jweVars, cipherVars, kmsVars>>

\* the promise of get settles: null without a seed, else generation
FromCacheGet(c) ==
  LET d == [c EXCEPT !.seed = c.awaited.val, !.awaited = NoAwait]
  IN /\ c.op = "fromCache" /\ c.pc = "get"
     /\ calls' = IF c.awaited.thrown # ""
                 THEN Replace(c, Throws(c, c.awaited.thrown))
                 ELSE IF ~Truthy(d.seed) THEN Replace(c, Returns(d, Null))
                 ELSE Replace(c, [d EXCEPT !.pc = "generate"])
     /\ UNCHANGED <<lsPresent, lsFail, item, monitor, cleared, cachedId,
                 jweVars, cipherVars, kmsVars>>

\* the key pair is generated: fromCache returns the instance
FromCacheGenerate(c) ==
  /\ c.op = "fromCache" /\ c.pc = "generate"
  /\ calls' = Replace(c, Returns(c, AccountMasterKey(_signerFromSeed(c.seed))))
  /\ UNCHANGED <<lsPresent, lsFail, item, monitor, cleared, cachedId,
                 jweVars, cipherVars, kmsVars>>

\* clearCache is called: SeedCache.remove runs
ClearCacheCall(accountId) ==
  LET r == remove(accountId)
      c == Call("clearCache", Undefined, accountId, FALSE)
  IN /\ CanCall
     /\ item' = r.item
     /\ Cached(accountId, <<>>)
     /\ calls' = Add([c EXCEPT !.pc = "remove", !.awaited = Completion(r)])
     /\ Clear(accountId, IF Alone(accountId) \/ monitor = "raced"
                          THEN "pending" ELSE "no")
     /\ UNCHANGED <<lsPresent, lsFail, monitor,
                 jweVars, cipherVars, kmsVars>>

\* the promise of remove settles: clearCache resolves to undefined
ClearCacheRemove(c) ==
  /\ c.op = "clearCache" /\ c.pc = "remove"
  /\ calls' = IF c.awaited.thrown # ""
              THEN Replace(c, Throws(c, c.awaited.thrown))
              ELSE Replace(c, Returns(c, Undefined))
  /\ Clear(c.accountId, IF cleared[c.accountId] = "pending" THEN "yes"
                        ELSE cleared[c.accountId])
  /\ UNCHANGED <<lsPresent, lsFail, item, monitor, cachedId,
                 jweVars, cipherVars, kmsVars>>

\* the caller takes the result of a call that is done
Settle(c) ==
  /\ c.pc = "done"
  /\ calls' = calls (-) SetToBag({c})
  /\ UNCHANGED <<lsPresent, lsFail, item, monitor, cleared, cachedId,
                 jweVars, cipherVars, kmsVars>>

\* the environment: the storage fills up, breaks or recovers
StorageChange(f) ==
  /\ lsPresent /\ f # lsFail
  /\ lsFail' = f
  /\ UNCHANGED <<lsPresent, item, calls, monitor, cleared, cachedId,
                 jweVars, cipherVars, kmsVars>>

Next ==
  \/ \E s \in Secrets, a \in AccountIds, ch \in BOOLEAN : FromSecretCall(s, a, ch)
  \/ \E c \in Calls : FromSecretDigest(c)
  \/ \E c \in Calls : FromSecretSet(c)
  \/ \E c \in Calls : FromSecretGenerate(c)
  \/ \E a \in AccountIds : FromCacheCall(a)
  \/ \E c \in Calls : FromCacheGet(c)
  \/ \E c \in Calls : FromCacheGenerate(c)
  \/ \E a \in AccountIds : ClearCacheCall(a)
  \/ \E c \in Calls : ClearCacheRemove(c)
  \/ \E c \in Calls : Settle(c)
  \/ \E f \in {"none", "write", "all"} : StorageChange(f)

\* ------------------------------------------------- JWE: encrypt and decrypt
\* encrypt is called and, awaiting nothing before it throws, settles
EncryptCall(data, kekId, wrappedCek, version) ==
  LET r == encrypt(data, kekId, wrappedCek, version)
  IN /\ ops' = Op("encrypt", data, Null, kekId, wrappedCek, version, r)
     /\ kmsLog' = r.sent
     /\ UNCHANGED <<cacheVars, cipherVars, kmsVars>>

\* decrypt is called and, awaiting nothing before it throws, settles
DecryptCall(jwe, kekId) ==
  LET r == decrypt(jwe, kekId)
  IN /\ ops' = Op("decrypt", Undefined, jwe, kekId, Undefined, Undefined, r)
     /\ kmsLog' = r.sent
     /\ UNCHANGED <<cacheVars, cipherVars, kmsVars>>

\* ------------------------------------------- JWE: encryptObject, decryptObject
\* the objects handed to encryptObject: {} and {"a": "b"}
Objs == {Obj(NoProps), Obj([k \in {<<97>>} |-> <<98>>])}

\* JSON.stringify(obj) as text, for an object of at most one text property
stringify(obj) ==
  IF DOMAIN obj.props = {} THEN Str(<<123, 125>>)
  ELSE LET k == CHOOSE k \in DOMAIN obj.props : TRUE
       IN Str(<<123, 34>> \o k \o <<34, 58, 34>> \o obj.props[k] \o <<34, 125>>)

\* JSON.parse(new TextDecoder().decode(data)), for the texts of such objects
parseObject(data) ==
  IF \E o \in Objs : Utf8(stringify(o).v) = data.v
  THEN Ok(CHOOSE o \in Objs : Utf8(stringify(o).v) = data.v, <<>>)
  ELSE Fail("SyntaxError", "Unexpected token", <<>>)

\* encryptObject({obj, ...rest})
encryptObject(obj, kekId, wrappedCek, version) ==
  encrypt(stringify(obj), kekId, wrappedCek, version)

\* decryptObject({jwe, kekId}): decrypt is called with the jwe alone
decryptObject(jwe, kekId) ==
  LET r == decrypt(jwe, Undefined)
  IN IF r.thrown # "" THEN r
     ELSE LET p == parseObject(r.val)
          IN IF p.thrown # "" THEN Fail(p.thrown, p.message, r.sent)
             ELSE Ok(p.val, r.sent)

\* encryptObject is called and, awaiting nothing before it throws, settles
EncryptObjectCall(obj, kekId, wrappedCek, version) ==
  LET r == encryptObject(obj, kekId, wrappedCek, version)
  IN /\ ops' = Op("encryptObject", obj, Null, kekId, wrappedCek, version, r)
     /\ kmsLog' = r.sent
     /\ UNCHANGED <<cacheVars, cipherVars, kmsVars>>

\* decryptObject is called and, awaiting nothing before it throws, settles
DecryptObjectCall(jwe, kekId) ==
  LET r == decryptObject(jwe, kekId)
  IN /\ ops' = Op("decryptObject", Undefined, jwe, kekId, Undefined,
                  Undefined, r)
     /\ kmsLog' = r.sent
     /\ UNCHANGED <<cacheVars, cipherVars, kmsVars>>

NextJwe ==
  \/ \E d \in Secrets, k \in KekIds, w \in {Undefined, Num, TEXT},
        v \in {Undefined, Num, RECOMMENDED, FIPS, DIR} : EncryptCall(d, k, w, v)
  \/ \E j \in Jwes, k \in KekIds : DecryptCall(j, k)
  \/ \E o \in Objs, k \in KekIds, w \in {Undefined, TEXT},
        v \in {Undefined, FIPS, DIR} : EncryptObjectCall(o, k, w, v)
  \/ \E j \in Jwes, k \in KekIds : DecryptObjectCall(j, k)

\* ------------------------------------------- recommendedCipher: the calls
\* generateKey() resolves to a random key
CipherGenerateKey(cek) ==
  /\ cek.t = "Uint8Array"
  /\ cipher' = CipherOp("generateKey", Undefined, Undefined, Undefined,
                        NoSealed, Ok(cek, <<>>))
  /\ UNCHANGED <<cacheVars, jweVars, kmsVars>>

\* encrypt is called; it awaits nothing
CipherEncrypt(data, additionalData, cek, iv) ==
  /\ cipher' = CipherOp("encrypt", data, additionalData, cek, NoSealed,
                        cipherEncrypt(data, additionalData, cek, iv))
  /\ UNCHANGED <<cacheVars, jweVars, kmsVars>>

\* decrypt is called on what the last encrypt returned, a field of it
\* replaced by a non-array at times, with some additional data and key
CipherDecrypt(additionalData, cek, bad) ==
  LET s == cipher.ret
      field(f) == IF f = bad THEN Num ELSE s[f]
  IN /\ cipher.op = "encrypt" /\ cipher.thrown = ""
     /\ cipher' = CipherOp("decrypt", Undefined, additionalData, cek,
                           IF bad = "none"
                           THEN [data |-> cipher.data, cek |-> cipher.cek,
                                 additionalData |-> cipher.additionalData]
                           ELSE NoSealed,
                           cipherDecrypt(field("ciphertext"), field("iv"),
                                         field("tag"), additionalData, cek))
     /\ UNCHANGED <<cacheVars, jweVars, kmsVars>>

\* the arguments a caller passes: all of the right type, the text some
\* text or a key wrapped by the remote KMS, or one of the wrong type
KmsArgs ==
  LET good(k) == Args(PLUGIN, KEK_TYPE, KEK1, k, KEY, TEXT, SIGNER)
  IN {good(k) : k \in KekIds}
       \cup {[good(KEK1) EXCEPT
                 !.text = wrapped(KEK1, Str(Base64UrlEncode(KEY.v)))]}
       \cup {[good(KEK1) EXCEPT ![f] = Num] :
               f \in {"plugin", "type", "id", "bytes", "text"}}
       \cup {[good(KEK1) EXCEPT !.signer = Undefined]}
\* the keys a Kek wraps
Keys == {KEY, U8(<<>>), U8(<<255>>)}
\* the latest time of the clock
MaxNow == 1

\* kmsService[method]({...}) up to its first await
KmsServiceCall(strategy, method, a) ==
  /\ kmsCall.pc \in {"idle", "done"}
  /\ kmsCall' = kmsStart("user", strategy, method, a, Undefined, NoInput)
  /\ UNCHANGED <<cacheVars, jweVars, cipherVars, wire, now>>

\* kek.wrap({key}) of a Kek with this id
KekWrap(strategy, id, key) ==
  /\ kmsCall.pc \in {"idle", "done"}
  /\ kmsCall' = kmsStart("Kek", strategy, "wrapKey",
                         [NoArgs EXCEPT !.bytes = key, !.keyId = id,
                                        !.signer = SIGNER],
                         Undefined, NoInput)
  /\ UNCHANGED <<cacheVars, jweVars, cipherVars, wire, now>>

\* kek.unwrap({wrappedKey}) of a Kek with this id: of some text, or of what
\* the wrap before it returned
KekUnwrap(strategy, id, returned) ==
  LET wrapBefore == /\ kmsCall.caller = "Kek"
                    /\ kmsCall.method = "wrapKey"
                    /\ kmsCall.thrown = ""
      wrappedKey == IF returned THEN kmsCall.ret ELSE TEXT
      ofWrap == /\ returned
                /\ kmsCall.strategy = strategy
                /\ kmsCall.args.keyId = id
  IN /\ kmsCall.pc = "done"
     /\ returned => wrapBefore
     /\ kmsCall' = kmsStart("Kek", strategy, "unwrapKey",
                            [NoArgs EXCEPT !.text = wrappedKey, !.keyId = id,
                                           !.signer = SIGNER],
                            IF ofWrap THEN kmsCall.args.bytes ELSE Undefined,
                            NoInput)
     /\ UNCHANGED <<cacheVars, jweVars, cipherVars, wire, now>>

\* accountMasterKey.generateKey({type, version})
GenerateKeyCall(strategy, type, version) ==
  /\ kmsCall.pc \in {"idle", "done"}
  /\ kmsCall' = generateKey(strategy, type, version)
  /\ UNCHANGED <<cacheVars, jweVars, cipherVars, wire, now>>

\* the signature is there: axios sends the request
KmsSign ==
  /\ kmsCall.pc = "sign"
  /\ kmsCall' = [kmsCall EXCEPT !.pc = "post", !.sent = @ + 1]
  /\ wire' = kmsCall.request
  /\ UNCHANGED <<cacheVars, jweVars, cipherVars, now>>

\* what axios settles with: the answer of the remote KMS, or a failure of
\* the network
response(c, outcome) ==
  IF outcome = "ok" THEN remote(c.request.body)
  ELSE Fail("NetworkError", "Network Error", <<>>)

\* the call after its request has settled, a failed request sent once more
respondRetry(c, outcome) ==
  LET r == response(c, outcome)
  IN IF r.thrown # ""
     THEN IF c.sent < 2 THEN [c EXCEPT !.pc = "sign", !.response = r]
          ELSE [c EXCEPT !.pc = "done", !.response = r, !.thrown = r.thrown,
                         !.message = r.message]
     ELSE [c EXCEPT !.pc = "done", !.response = r,
                    !.ret = result(c.strategy, c.method, r.val)]
\* the call after its request has settled: the await of axios throws what
\* the request failed with, or the method returns from response.data
respond(c, outcome) ==
  LET r == response(c, outcome)
  IN IF r.thrown # ""
     THEN [c EXCEPT !.pc = "done", !.response = r, !.thrown = r.thrown,
                    !.message = r.message]
     ELSE [c EXCEPT !.pc = "done", !.response = r,
                    !.ret = result(c.strategy, c.method, r.val)]

\* a key: an Hmac or a Kek
Handle(class, algorithm, id, kmsService, signer) ==
  [t |-> "object", class |-> class, algorithm |-> algorithm, id |-> id,
   kmsService |-> kmsService, signer |-> signer]

\* new Class({id, kmsService, signer}), always a Kek
newKeyKek(c) ==
  IF c.caller = "AccountMasterKey" /\ c.pc = "done" /\ c.thrown = ""
  THEN [c EXCEPT !.ret = Handle("Kek", A256KW, c.ret, c.strategy,
                                c.args.signer)]
  ELSE c
\* generateKey of AccountMasterKey after kmsService.generateKey: the id it
\* resolved with becomes new Class({id, kmsService, signer}), an Hmac for
\* 'hmac' and a Kek for 'kek'
newKey(c) ==
  IF c.caller = "AccountMasterKey" /\ c.pc = "done" /\ c.thrown = ""
  THEN [c EXCEPT !.ret = IF c.input.type = HMAC
                         THEN Handle("Hmac", HS256, c.ret, c.strategy,
                                     c.args.signer)
                         ELSE Handle("Kek", A256KW, c.ret, c.strategy,
                                     c.args.signer)]
  ELSE c

\* axios settles: _postOperation returns response.data, or the await throws
KmsRespond(outcome) ==
  /\ kmsCall.pc = "post"
  /\ kmsCall' = newKey(respond(kmsCall, outcome))
  /\ UNCHANGED <<cacheVars, jweVars, cipherVars, wire, now>>

\* the clock of Date.now() moves on
Tick ==
  /\ now < MaxNow
  /\ now' = now + 1
  /\ UNCHANGED <<cacheVars, jweVars, cipherVars, kmsCall, wire>>

NextKms ==
  \/ \E s \in Strategies, m \in KmsServiceMethods, a \in KmsArgs :
       KmsServiceCall(s, m, a)
  \/ \E s \in Strategies, i \in KekIds, k \in Keys : KekWrap(s, i, k)
  \/ \E s \in Strategies, i \in KekIds, r \in BOOLEAN : KekUnwrap(s, i, r)
  \/ \E s \in Strategies, t \in {HMAC, KEK, RSA, Num},
        v \in {Undefined, Num, RECOMMENDED, FIPS, DIR} :
       GenerateKeyCall(s, t, v)
  \/ KmsSign
  \/ \E o \in {"ok", "NetworkError"} : KmsRespond(o)
  \/ Tick

NextCipher ==
  \/ \E k \in Ceks : CipherGenerateKey(k)
  \/ \E d \in CipherData, a \in AdditionalData, k \in Ceks, i \in Ivs :
       CipherEncrypt(d, a, k, i)
  \/ \E a \in AdditionalData, k \in Ceks,
        bad \in {"none", "iv", "ciphertext", "tag"} : CipherDecrypt(a, k, bad)

\* the program, and the program with each history
InitProgram == Init /\ monitor = "none"
InitCleared == Init /\ monitor = "cleared"
InitCached == Init /\ monitor = "cached"
Spec == InitProgram /\ [][Next]_vars
SpecCleared == InitCleared /\ [][Next]_vars
SpecCached == InitCached /\ [][Next]_vars
\* the calls on a storage that works and goes on working, the history of
\* clearCache kept also when a fromSecret is in flight
NextRaced ==
  \/ \E s \in Secrets, a \in AccountIds, ch \in BOOLEAN : FromSecretCall(s, a, ch)
  \/ \E c \in Calls : FromSecretDigest(c)
  \/ \E c \in Calls : FromSecretSet(c)
  \/ \E c \in Calls : FromSecretGenerate(c)
  \/ \E a \in AccountIds : FromCacheCall(a)
  \/ \E c \in Calls : FromCacheGet(c)
  \/ \E c \in Calls : FromCacheGenerate(c)
  \/ \E a \in AccountIds : ClearCacheCall(a)
  \/ \E c \in Calls : ClearCacheRemove(c)
  \/ \E c \in Calls : Settle(c)
\* fromSecret without the cache, on account ids "a" and "a:" and the
\* secrets "t", ":t" and the byte 116
PrefixAccountIds == {<<97>>, <<97, 58>>}
PrefixSecrets == {Str(<<116>>), Str(<<58, 116>>), U8(<<116>>)}
NextPrefix ==
  \/ \E s \in PrefixSecrets, a \in PrefixAccountIds : FromSecretCall(s, a, FALSE)
  \/ \E c \in Calls : FromSecretDigest(c)
  \/ \E c \in Calls : FromSecretGenerate(c)
InitRaced == Init /\ monitor = "raced" /\ lsPresent /\ lsFail = "none"
SpecRaced == InitRaced /\ [][NextRaced]_vars
\* the envelope operations of an instance, which leave the cache alone
InitJwe == Init /\ monitor = "none" /\ ~lsPresent
SpecJwe == InitJwe /\ [][NextJwe]_vars
\* the cipher of the recommended profile
SpecCipher == InitJwe /\ [][NextCipher]_vars
\* the clients of the KMS, and the keys that use them
SpecKms == InitJwe /\ [][NextKms]_vars
\* every method of AccountMasterKey next to the others: fromSecret,
\* fromCache and clearCache on a storage that works, generateKey with its
\* request, encrypt and decrypt
NextStore ==
  \/ \E a \in AccountIds, ch \in BOOLEAN : FromSecretCall(SECRET2, a, ch)
  \/ \E c \in Calls : FromSecretDigest(c)
  \/ \E c \in Calls : FromSecretSet(c)
  \/ \E c \in Calls : FromSecretGenerate(c)
  \/ \E a \in AccountIds : FromCacheCall(a)
  \/ \E c \in Calls : FromCacheGet(c)
  \/ \E c \in Calls : FromCacheGenerate(c)
  \/ \E a \in AccountIds : ClearCacheCall(a)
  \/ \E c \in Calls : ClearCacheRemove(c)
  \/ \E c \in Calls : Settle(c)
  \/ GenerateKeyCall("capability", KEK, Undefined)
  \/ KmsSign
  \/ KmsRespond("ok")
  \/ EncryptCall(TEXT, KEK1, Undefined, Undefined)
  \/ DecryptCall(Jwe(TEXT, TEXT, TEXT, TEXT, Array(<<>>)), KEK1)
InitStore == Init /\ monitor = "none" /\ lsPresent /\ lsFail = "none"
SpecStore == InitStore /\ [][NextStore]_vars
\* fromSecret and the bytes it hashes
SpecPrefix == InitJwe /\ [][NextPrefix]_vars

\* ------------------------------------------------------------- the claims
\* call c took, in this step, the place it has in the next state
Arrived(c) == CopiesIn(c, calls') > CopiesIn(c, calls)
\* call c of this state is gone, or has moved on, in the next state
Left(c) == CopiesIn(c, calls') < CopiesIn(c, calls)
\* a SeedCache method ran in this step, on behalf of call c
Ran(c) == c.pc \in {"set", "get", "remove"} /\ Arrived(c)

DoneCalls(op) == {c \in Calls : c.op = op /\ c.pc = "done"}

\* the stored text is no mapping: JSON.parse rejects it, or it is the text
\* of something that is not an object
Corrupt(text) ==
  text.k = "garbage" \/ (text.k = "json" /\ text.j.t # "object")

\* the stored text is a mapping, or missing, without an entry for accountId
NeverCached(text, accountId) ==
  \/ text.k = "absent"
  \/ text.k = "json" /\ text.j.t = "object" /\ accountId \notin DOMAIN text.j.props

\* C2: two runs of fromSecret with the same secret and the same accountId
\* yield the same derived seed and the same signer identifier, whatever the
\* cache flag, the state of the cache and the operations in between.
C2_Determinism ==
  \A c \in DoneCalls("fromSecret"), d \in DoneCalls("fromSecret") :
    (c.thrown = "" /\ d.thrown = "" /\ c.secret = d.secret
       /\ c.accountId = d.accountId)
    => (c.seed = d.seed /\ c.ret = d.ret)

\* two runs on the same input are done, one caching and one not, while the
\* cache holds the seed of the other secret for that account
C2_Witness ==
  \E c \in DoneCalls("fromSecret"), d \in DoneCalls("fromSecret") :
    /\ c.thrown = "" /\ d.thrown = "" /\ c.secret = d.secret
    /\ c.accountId = d.accountId /\ c.cache /\ ~d.cache
    /\ c.ret.t = "AccountMasterKey"
    /\ Truthy(get(c.accountId).val) /\ get(c.accountId).val # c.seed

\* C3, as claimed: with the storage there and working, once a caching
\* fromSecret for an account has completed, and no clearCache or other set
\* for that account came later, fromCache for it returns an instance with
\* the signer identifier of the instance fromSecret returned.
C3_AsClaimed ==
  \A c \in DoneCalls("fromCache") :
    (c.ok /\ c.expect # <<>>) => c.ret = AccountMasterKey(c.expect)

\* C4, as claimed: a fromCache called after clearCache for its account has
\* completed, with no caching fromSecret for that account in flight while
\* clearCache ran nor called since, returns null.
C4_AsClaimed ==
  \A c \in DoneCalls("fromCache") : c.cl => c.ret = Null

\* C5: fromCache returns null and never throws when there is no
\* localStorage, when the account was never cached, and when the stored
\* record is unreadable or corrupt.  In the step that calls it in such a
\* state get resolves to null; a call whose get resolved to null returns
\* null; no fromCache ever throws.
C5_FromCacheNull ==
  [][/\ \A c \in Calls' :
          (c.op = "fromCache" /\ Ran(c)
             /\ (lsFail = "all" \/ Corrupt(item)
                   \/ NeverCached(item, c.accountId)))
          => c.awaited = Return(Null)
     /\ \A c \in Calls' :
          (c.op = "fromCache" /\ c.pc = "done" /\ Arrived(c) /\ ~lsPresent)
          => (c.ret = Null /\ c.thrown = "")
     /\ \A c \in Calls :
          (c.op = "fromCache" /\ c.pc = "get" /\ c.awaited = Return(Null)
             /\ Left(c))
          => \E d \in Calls' :
               /\ Arrived(d) /\ d.op = "fromCache" /\ d.pc = "done"
               /\ d.accountId = c.accountId /\ d.ret = Null /\ d.thrown = ""
     /\ \A c \in Calls' : (c.op = "fromCache" /\ c.pc = "done") => c.thrown = ""
    ]_vars

\* fromCache has returned null for an account whose record cannot be read,
\* and for one whose record is the text of an array
C5_Witness ==
  \E c \in DoneCalls("fromCache") :
    /\ c.ret = Null /\ c.thrown = "" /\ lsPresent
    /\ (lsFail = "all" \/ item = Json(Arr(NoProps)))

\* C6, as claimed: with a working storage, when set returns true the next
\* get for that accountId returns exactly that seed, and after remove the
\* next get returns null.
C6_AsClaimed ==
  [][\A c \in Calls' :
       (Ran(c) /\ lsPresent /\ lsFail = "none")
       => /\ (c.pc = "set" /\ c.awaited.val = True)
               => (get(c.accountId).val)' = c.seed
          /\ c.pc = "remove" => (get(c.accountId).val)' = Null
    ]_vars

\* C7: no SeedCache method throws to its caller.  Without localStorage set
\* and remove return false, get returns null and nothing is stored; when
\* writes fail set and remove return false and the record is unchanged; when
\* reads fail get returns null.
C7_NeverThrows ==
  [][/\ \A a \in AccountIds :
          /\ get(a).thrown = "" /\ get(a).item = item
          /\ ~lsPresent => get(a).val = Null
     /\ \A c \in Calls' :
          Ran(c)
          => /\ c.awaited.thrown = ""
             /\ ~lsPresent
                  => /\ c.awaited.val = (IF c.pc = "get" THEN Null ELSE False)
                     /\ item' = item
             /\ (lsPresent /\ lsFail # "none" /\ c.pc \in {"set", "remove"})
                  => (c.awaited.val = False /\ item' = item)
             /\ (lsPresent /\ lsFail = "all" /\ c.pc = "get")
                  => c.awaited.val = Null
    ]_vars

\* set has returned false to a fromSecret while the storage was failing
C7_Witness ==
  \E c \in Calls :
    /\ c.op = "fromSecret" /\ c.pc = "set" /\ c.awaited = Return(False)
    /\ lsPresent /\ lsFail = "all" /\ item = Garbage

\* C8, as claimed: on a corrupt record and a working storage SeedCache
\* behaves as on an empty mapping: get returns null, and set returns true
\* and makes the next get return that seed.
C8_AsClaimed ==
  [][\A c \in Calls' :
       (Ran(c) /\ lsPresent /\ lsFail = "none" /\ Corrupt(item))
       => /\ c.pc = "get" => c.awaited = Return(Null)
          /\ c.pc = "set"
               => (c.awaited = Return(True) /\ (get(c.accountId).val)' = c.seed)
    ]_vars

\* the fields decrypt checks, in the order of the claim
Order == <<"protected", "iv", "ciphertext", "tag", "recipients">>
FieldBad(jwe, f) ==
  IF f = "recipients" THEN jwe[f].t # "array" ELSE jwe[f].t # "string"
\* the first field, in that order, that is missing or of the wrong type
FirstBad(jwe) ==
  LET bad == {i \in 1..Len(Order) : FieldBad(jwe, Order[i])}
  IN IF bad = {} THEN "none"
     ELSE Order[CHOOSE i \in bad : \A j \in bad : i <= j]
\* the field a message names
Named(message) ==
  CASE message = MSG_PROTECTED -> "protected"
    [] message = MSG_IV -> "iv"
    [] message = MSG_CIPHERTEXT -> "ciphertext"
    [] message = MSG_TAG -> "tag"
    [] message = MSG_RECIPIENTS -> "recipients"
    [] message = MSG_HEADER -> "header"
    [] OTHER -> "none"
\* the recipient whose header.kid is kekId, if any
Matching(jwe, kekId) ==
  {i \in 1..Len(jwe.recipients.elems) :
     /\ jwe.recipients.elems[i].header.t = "object"
     /\ jwe.recipients.elems[i].header.kid = kekId}
HeaderOk(h) == h.alg = A256KW /\ h.enc \in {A256GCM, C20P}

\* C1, as claimed: for data P, a kekId and a version of recommended or fips,
\* with or without a wrapped CEK, encrypt returns an envelope and decrypt of
\* that envelope under the same kekId returns P.
C1_AsClaimed ==
  (/\ ops.op = "encrypt"
   /\ ops.data.t \in {"string", "Uint8Array"}
   /\ ops.version \in {Undefined, RECOMMENDED, FIPS}
   /\ ops.wrappedCek \in {Undefined, TEXT})
  => /\ ops.thrown = ""
     /\ decrypt(ops.ret, ops.kekId).val = _strToUint8Array(ops.data).val

C10_AsClaimed ==
  (/\ ops.op = "decrypt" /\ ops.jwe.t = "object"
   /\ FirstBad(ops.jwe) = "none"
   /\ Matching(ops.jwe, ops.kekId) = {})
  => /\ ops.thrown # ""
     /\ Named(ops.message) \in {"recipients", "header"}
     /\ kmsLog = <<>>

\* the content algorithms the profiles publish: JWE_ENC of recommendedCipher,
\* and the one decrypt hands to fipsCipher
PublishedEnc == {JWE_ENC, A256GCM}
\* the header of the recipient decrypt finds for kekId
FoundHeader(jwe, kekId) ==
  jwe.recipients.elems[CHOOSE i \in Matching(jwe, kekId) :
                         \A j \in Matching(jwe, kekId) : i <= j].header

\* C11, as claimed: decrypt accepts the header of the matching recipient
\* exactly when its alg is A256KW and its enc is the identifier a profile
\* publishes; a header it does not accept is rejected with the error about
\* the header and no request goes to the KmsService.
C11_AsClaimed ==
  (/\ ops.op = "decrypt" /\ ops.jwe.t = "object"
   /\ FirstBad(ops.jwe) = "none"
   /\ Matching(ops.jwe, ops.kekId) # {})
  => LET h == FoundHeader(ops.jwe, ops.kekId)
         accepted == ops.message # MSG_HEADER
     IN /\ accepted <=> (h.alg = A256KW /\ h.enc \in PublishedEnc)
        /\ ~accepted => (ops.thrown = "Error" /\ kmsLog = <<>>)

\* encrypt is called on data, a version and a wrappedCek it supports
ValidEncrypt ==
  /\ ops.op = "encrypt"
  /\ ops.data.t \in {"string", "Uint8Array"}
  /\ ops.version \in {Undefined, RECOMMENDED, FIPS}
  /\ ops.wrappedCek \in {Undefined, TEXT}
\* the identifier of the profile a version selects
ProfileEnc(version) == IF version = FIPS THEN A256GCM ELSE JWE_ENC
\* base64url of the JSON text {"enc":"<enc>"}
ProtectedOf(enc) ==
  Str(Base64UrlEncode(<<123, 34, 101, 110, 99, 34, 58, 34>> \o enc.v
                        \o <<34, 125>>))

\* C12, as claimed: encrypt returns an envelope with exactly one recipient,
\* whose header has kid = kekId, alg = A256KW and enc = the identifier of
\* the profile the version selects, and whose protected field is the
\* base64url text of {enc} with that enc.
C12_AsClaimed ==
  ValidEncrypt
  => /\ ops.thrown = "" /\ ops.ret.t = "object"
     /\ Len(ops.ret.recipients.elems) = 1
     /\ ops.ret.recipients.elems[1].header
          = Header(ops.kekId, A256KW, ProfileEnc(ops.version))
     /\ ops.ret.protected = ProtectedOf(ProfileEnc(ops.version))

\* the requests of the last call that ask for one of these methods
Requested(methods) == {i \in 1..Len(kmsLog) : kmsLog[i].method \in methods}

\* C13, as claimed: with a wrappedCek encrypt requests exactly one unwrap of
\* it from the KEK kekId and no wrap, and the recipient's encrypted_key is
\* that wrappedCek; without one it requests exactly one wrap from the KEK
\* kekId and no unwrap, and encrypted_key is the result of the wrap.
C13_AsClaimed ==
  ValidEncrypt
  => IF Truthy(ops.wrappedCek)
     THEN /\ Cardinality(Requested({"unwrap", "unwrapKey"})) = 1
          /\ Requested({"wrapKey"}) = {}
          /\ \A i \in Requested({"unwrap", "unwrapKey"}) :
               /\ kmsLog[i].request.kekId = ops.kekId
               /\ kmsLog[i].request.wrappedKey = ops.wrappedCek
          /\ ops.thrown = ""
          /\ ops.ret.recipients.elems[1].encrypted_key = ops.wrappedCek
     ELSE /\ Cardinality(Requested({"wrapKey"})) = 1
          /\ Requested({"unwrap", "unwrapKey"}) = {}
          /\ \A i \in Requested({"wrapKey"}) :
               kmsLog[i].request.kekId = ops.kekId
          /\ ops.thrown = ""

\* C15, as claimed: encryptObject returns an envelope from which
\* decryptObject, under the same kekId, returns an object equal to obj; and
\* decryptObject selects the recipient by the kekId it was given, so it
\* finds the recipient whose header.kid is that kekId.
C15_AsClaimed ==
  /\ (/\ ops.op = "encryptObject"
      /\ ops.version \in {Undefined, RECOMMENDED, FIPS})
     => /\ ops.thrown = ""
        /\ decryptObject(ops.ret, ops.kekId).val = ops.data
  /\ (/\ ops.op = "decryptObject" /\ ops.jwe.t = "object"
      /\ FirstBad(ops.jwe) = "none"
      /\ Matching(ops.jwe, ops.kekId) # {})
     => ops.message # "Cannot destructure 'undefined'"

\* C14, as claimed: decrypt of what encrypt returned, under the key of that
\* encrypt and with additional data other than the ones it was given, does
\* not return the data.
C14_AsClaimed ==
  (/\ cipher.op = "decrypt"
   /\ cipher.sealed.data # Undefined
   /\ cipher.cek = cipher.sealed.cek
   /\ cipher.additionalData # cipher.sealed.additionalData)
  => (cipher.thrown # "" \/ cipher.ret # cipher.sealed.data)

\* C16, as claimed: a method of KmsService called with an argument of the
\* wrong type fails with the TypeError of _assert that names the parameter,
\* and with no operation constructed and no request sent.
C16_AsClaimed ==
  (kmsCall.caller = "user" /\ kmsCall.rejected # <<>>)
  => /\ kmsCall.pc = "done"
     /\ kmsCall.thrown = "TypeError"
     /\ kmsCall.message = kmsCall.rejected[1]
     /\ kmsCall.request = NoRequest
     /\ kmsCall.sent = 0

\* C17, as claimed: under either strategy, a request sent after a request
\* that invoked another key id does not carry the same signed content.
C17_AsClaimed ==
  [][(/\ wire' # wire
      /\ wire'.strategy = wire.strategy
      /\ wire'.body.invocationTarget # wire.body.invocationTarget)
     => wire'.signed # wire.signed]_vars

C19_AsClaimed ==
  (/\ kmsCall.caller = "Kek"
   /\ kmsCall.method = "unwrapKey"
   /\ kmsCall.pc = "done"
   /\ kmsCall.wraps.t = "Uint8Array"
   /\ kmsCall.response.thrown # "NetworkError")
  => /\ kmsCall.thrown = ""
     /\ kmsCall.ret = kmsCall.wraps

\* the version generateKey checks: 'recommended' when none is given
VersionOf(input) ==
  IF input.version.t = "undefined" THEN RECOMMENDED ELSE input.version
Recognised(version) == version \in {RECOMMENDED, FIPS}

\* C20: generateKey throws the error of the version check whenever the
\* version is not 'recommended' or 'fips' (a string: 'Unsupported version',
\* another value: '"version" must be a string.'), whatever the type; with
\* a recognised version and a type other than 'hmac' or 'kek' it throws
\* 'Unknown key type'; and in both cases the call is over with no request
\* built or sent.
C20_VersionThenType ==
  kmsCall.caller = "AccountMasterKey"
  => /\ ~Recognised(VersionOf(kmsCall.input))
        => /\ kmsCall.pc = "done"
           /\ kmsCall.message = (IF kmsCall.input.version.t = "string"
                                 THEN MSG_UNSUPPORTED ELSE MSG_VERSION)
           /\ kmsCall.thrown = (IF kmsCall.input.version.t = "string"
                                THEN "Error" ELSE "TypeError")
           /\ kmsCall.sent = 0
           /\ kmsCall.request = NoRequest
     /\ (/\ Recognised(VersionOf(kmsCall.input))
         /\ kmsCall.input.type \notin {HMAC, KEK})
        => /\ kmsCall.pc = "done"
           /\ kmsCall.thrown = "Error"
           /\ kmsCall.message = MSG_UNKNOWN_TYPE
           /\ kmsCall.sent = 0
           /\ kmsCall.request = NoRequest
\* generateKey({type: 'rsa', version: 'dir'}) has thrown for the version
C20_Witness ==
  /\ kmsCall.caller = "AccountMasterKey"
  /\ kmsCall.input = Input(RSA, DIR)
  /\ kmsCall.pc = "done"
  /\ kmsCall.message = MSG_UNSUPPORTED

C22_RejectsSecret ==
  [][\A c \in Calls' :
       (c.op = "fromSecret" /\ c.secret.t \notin {"string", "Uint8Array"})
       => /\ c.pc = "done"
          /\ c.thrown = "TypeError"
          /\ Arrived(c) => item' = item
    ]_vars
\* fromSecret({secret: 5, cache: true}) has thrown over a stored record
C22_Witness ==
  \E c \in Calls :
    /\ c.op = "fromSecret" /\ c.secret = Num /\ c.cache
    /\ c.pc = "done" /\ c.thrown = "TypeError"
    /\ item.k = "json"

\* C23, as claimed: whichever client is used, a method that returns hands
\* its caller the result in the response: for unwrapKey the bytes the
\* unwrappedKey text decodes to, for every other method the value itself.
C23_AsClaimed ==
  (kmsCall.caller = "user" /\ kmsCall.pc = "done" /\ kmsCall.thrown = "")
  => kmsCall.ret = (IF kmsCall.method = "unwrapKey"
                    THEN U8(Base64UrlDecode(kmsCall.response.val.v))
                    ELSE kmsCall.response.val)

\* C24: a fromSecret with cache, its secret a string or a Uint8Array, never
\* throws, neither does the SeedCache.set it awaits, and the instance it
\* returns has the signer id of the seed that is the digest of prefix,
\* accountId and secret, whatever the storage did.
C24_CacheNoDependency ==
  \A c \in Calls :
    (c.op = "fromSecret" /\ c.cache /\ c.secret.t \in {"string", "Uint8Array"})
    => /\ c.thrown = ""
       /\ c.awaited.thrown = ""
       /\ c.pc = "done"
          => c.ret = AccountMasterKey(_signerFromSeed(
                       U8(SHA256(fromSecretData(fromSecretBytes(c.secret).val,
                                                c.accountId)))))
\* fromSecret with cache has returned an instance without localStorage
C24_Witness ==
  \E c \in Calls :
    /\ c.op = "fromSecret" /\ c.cache /\ c.pc = "done"
    /\ c.ret.t = "AccountMasterKey"
    /\ ~lsPresent

\* C25, as claimed: set and remove run without a lock and the last write
\* wins: when a set or a remove has written (it returns true), the entry of
\* its accountId is its outcome, the seed of the set or nothing after the
\* remove, until the next of them writes; and the stored record changes in
\* no other step.
C25_AsClaimed ==
  [][/\ \A c \in Calls' :
          (Ran(c) /\ c.pc \in {"set", "remove"} /\ c.awaited = Return(True))
          => get(c.accountId)'.val = (IF c.pc = "set" THEN c.seed ELSE Null)
     /\ item' # item => \E c \in Calls' : Ran(c) /\ c.pc \in {"set", "remove"}
    ]_vars

\* C26, as claimed: a fromCache called when clearCache for its account has
\* completed, and every caching fromSecret for that account called before
\* that clearCache has completed too, none called since, returns null,
\* also when such a fromSecret was at an await while clearCache ran.
C26_AsClaimed ==
  \A c \in DoneCalls("fromCache") :
    (monitor = "raced" /\ c.cl) => c.ret = Null

\* C27, as claimed: a set or remove for one accountId leaves what get
\* returns for every other accountId as it was; and when a set returns
\* true while a set for another accountId that returned true is still in
\* flight, get returns its seed, that of the other kept by the first part.
C27_AsClaimed ==
  [][\A c \in Calls' :
       (Ran(c) /\ c.pc \in {"set", "remove"})
       => /\ \A b \in AccountIds \ {c.accountId} : get(b)'.val = get(b).val
          /\ (/\ c.pc = "set" /\ c.awaited = Return(True)
              /\ \E d \in Calls : /\ d.pc = "set" /\ d.awaited = Return(True)
                                  /\ d.accountId # c.accountId)
             => get(c.accountId)'.val = c.seed
    ]_vars

\* C28, as claimed: two calls of fromSecret that differ in the accountId or
\* in the bytes of the secret do not hash the same bytes, and do not derive
\* the same seed.
C28_AsClaimed ==
  \A c \in Calls, d \in Calls :
    (/\ c.op = "fromSecret" /\ d.op = "fromSecret"
     /\ c.thrown = "" /\ d.thrown = ""
     /\ \/ c.accountId # d.accountId
        \/ fromSecretBytes(c.secret).val.v # fromSecretBytes(d.secret).val.v)
    => /\ (c.pc = "digest" /\ d.pc = "digest") => c.data # d.data
       /\ (c.pc = "done" /\ d.pc = "done") => c.ret # d.ret

\* the text stored for accountId, <<>> when there is none
Entry(text, accountId) ==
  IF text.k = "json" /\ text.j.t = "object" /\ accountId \in DOMAIN text.j.props
  THEN text.j.props[accountId] ELSE <<>>
\* the secrets fromSecret accepts, as bytes, and the seeds they give
SecretBytes == {fromSecretBytes(s).val.v : s \in {SECRET1, SECRET2}}
Seeds ==
  [a \in AccountIds |-> {SHA256(fromSecretData(U8(b), a)) : b \in SecretBytes}]

\* C29: every entry of the stored record is the base64url text of a seed
\* fromSecret derives for its accountId, and is neither a secret nor a
\* signer id, as they are or encoded; and a step changes the entry of an
\* accountId only when it runs the set of a fromSecret with cache for that
\* accountId, which stores the text of its seed, or the remove of a
\* clearCache for it, which leaves none.  So fromSecret without cache,
\* fromCache, generateKey, encrypt and decrypt change no entry.
C29_OnlySeeds ==
  [][\A a \in AccountIds :
       /\ Entry(item', a) # <<>>
          => /\ \E seed \in Seeds[a] : Entry(item', a) = Base64UrlEncode(seed)
             /\ \A b \in SecretBytes :
                  Entry(item', a) \notin {b, Base64UrlEncode(b)}
             /\ \A seed \in Seeds[a] :
                  Entry(item', a) \notin {_signerFromSeed(U8(seed)),
                                          Base64UrlEncode(_signerFromSeed(U8(seed)))}
       /\ Entry(item', a) # Entry(item, a)
          => \E c \in Calls' :
               /\ Ran(c) /\ c.accountId = a
               /\ \/ /\ c.op = "fromSecret" /\ c.cache /\ c.pc = "set"
                     /\ Entry(item', a) = Base64UrlEncode(c.seed.v)
                  \/ /\ c.op = "clearCache" /\ c.pc = "remove"
                     /\ Entry(item', a) = <<>>
    ]_vars
\* the record holds an entry while generateKey, encrypt or decrypt has run
\* and a fromSecret without cache is in the calls
C29_Witness ==
  /\ \E a \in AccountIds : Entry(item, a) # <<>>
  /\ kmsCall.pc = "done"
  /\ ops.op \in {"encrypt", "decrypt"}
  /\ \E c \in Calls : c.op = "fromSecret" /\ ~c.cache /\ c.pc = "done"

====
